---- MODULE Spec2Model ----
(***************************************************************************)
(* Skill package scripts: init_skill.py (generator) and validate_skill.py  *)
(* (validator).                                                            *)
(*                                                                         *)
(* Text is a sequence of tokens.  A token is one character, except for a   *)
(* few tokens that stand for a fixed run of characters ("w64" is 64        *)
(* lowercase letters, "P" is 50 characters of prose, "TODO" and "[TODO"    *)
(* are the literal markers).  TokLen gives the number of characters.       *)
(***************************************************************************)
EXTENDS Integers, Sequences, FiniteSets, TLC

VARIABLES
    raw_skill_name,   \* main(): args.skill_name
    skill_name,       \* main(): normalize_skill_name(raw_skill_name)
    n_pc,             \* main(): where the name handling ended
    raw_resources,    \* main(): args.resources
    resources,        \* parse_resources: the list returned
    invalid,          \* parse_resources: the unknown tokens listed
    r_pc,             \* parse_resources: "start", "returned" or "exit1"
    fs,               \* the filesystem under the parent directory: path -> node
    args,             \* per init_skill.py invocation: the command line
    local,            \* per invocation: skill_name, resources, loop index
    pc,               \* per invocation: the next step
    out,              \* per invocation: the [ERROR] line printed, if any
    wrote,            \* per invocation: the paths it created or wrote (history)
    HAS_YAML,         \* validate_skill.py: whether `import yaml` succeeded
    report            \* the latest validate_skill.py run: path and outcome

normVars == <<raw_skill_name, skill_name, n_pc>>

resVars == <<raw_resources, resources, invalid, r_pc>>

fsVars == <<fs, args, local, pc, out, wrote, HAS_YAML, report>>

vars ==
    <<raw_skill_name, skill_name, n_pc, raw_resources, resources, invalid, r_pc,
      fs, args, local, pc, out, wrote, HAS_YAML, report>>

----------------------------------------------------------------------------
(* Bounds *)

MaxRawLen == 4

MaxResLen == 5

MaxNameLen == 3

MaxEdits == 2

MaxBodyLen == 2

MaxIdLen == 3

----------------------------------------------------------------------------
(* Text helpers *)

SeqsUpTo(S, n) == UNION {[1..k -> S] : k \in 0..n}

TokLen(c) ==
    CASE c = "w64" -> 64
      [] c = "P" -> 50
      [] c = "TODO" -> 4
      [] c = "[TODO" -> 5
      [] c = "" -> 0
      [] OTHER -> 1

RECURSIVE StrLen(_)
StrLen(s) == IF s = <<>> THEN 0 ELSE TokLen(Head(s)) + StrLen(Tail(s))

\* characters the raw skill name is drawn from: lowercase letters, a digit,
\* the hyphen, an uppercase letter, a space, punctuation, a run of 64
\* lowercase letters, and U+0130 whose lowercase form is two characters
NameChars == {"o", "n", "1", "-", "O", " ", "!", "w64", "Idot"}

\* str.lower() per character
LowerChar(c) ==
    CASE c = "O" -> <<"o">>
      [] c = "Idot" -> <<"i", "cdot">>
      [] OTHER -> <<c>>

RECURSIVE Lower(_)
Lower(s) == IF s = <<>> THEN <<>> ELSE LowerChar(Head(s)) \o Lower(Tail(s))

\* str.strip() drops whitespace, str.strip("-") drops hyphens
Whitespace == {" "}

Hyphen == {"-"}

RECURSIVE LStrip(_, _)
LStrip(s, D) ==
    IF s # <<>> /\ Head(s) \in D THEN LStrip(Tail(s), D) ELSE s

RECURSIVE RStrip(_, _)
RStrip(s, D) ==
    IF s # <<>> /\ s[Len(s)] \in D THEN RStrip(SubSeq(s, 1, Len(s) - 1), D) ELSE s

Strip(s, D) == RStrip(LStrip(s, D), D)

\* the character class [a-z0-9]
AZ09 == {"o", "n", "i", "1", "w64"}

IsAZ09(c) == c \in AZ09

RECURSIVE LSkipNotAZ09(_)
LSkipNotAZ09(s) ==
    IF s # <<>> /\ ~IsAZ09(Head(s)) THEN LSkipNotAZ09(Tail(s)) ELSE s

\* re.sub("[^a-z0-9]+", "-", s): every maximal run of characters outside
\* the class becomes one hyphen
RECURSIVE SubNotAZ09(_)
SubNotAZ09(s) ==
    IF s = <<>> THEN <<>>
    ELSE IF ~IsAZ09(Head(s))
         THEN <<"-">> \o SubNotAZ09(LSkipNotAZ09(s))
         ELSE <<Head(s)>> \o SubNotAZ09(Tail(s))

\* re.sub("-{2,}", "-", s)
RECURSIVE CollapseHyphens(_)
CollapseHyphens(s) ==
    IF Len(s) < 2 THEN s
    ELSE IF s[1] = "-" /\ s[2] = "-"
         THEN <<"-">> \o CollapseHyphens(LStrip(s, Hyphen))
         ELSE <<Head(s)>> \o CollapseHyphens(Tail(s))

----------------------------------------------------------------------------
(* init_skill.py: name normalizer *)

MAX_SKILL_NAME_LENGTH == 64

\* the same steps with the hyphen strip moved before the substitution
normalize_strip_first(s) ==
    CollapseHyphens(SubNotAZ09(Strip(Lower(Strip(s, Whitespace)), Hyphen)))

\* the same steps without the hyphen strip
normalize_no_hyphen_strip(s) ==
    CollapseHyphens(SubNotAZ09(Lower(Strip(s, Whitespace))))

normalize_skill_name(s) ==
    CollapseHyphens(Strip(SubNotAZ09(Lower(Strip(s, Whitespace))), Hyphen))

\* main(), lines 275-287: normalize, then the two input errors
NormalizeMain ==
    /\ n_pc = "start"
    /\ skill_name' = normalize_skill_name(raw_skill_name)
    /\ n_pc' = IF skill_name' = <<>> THEN "exit_empty"
               ELSE IF StrLen(skill_name') > MAX_SKILL_NAME_LENGTH THEN "exit_too_long"
               ELSE "accepted"
    /\ UNCHANGED raw_skill_name
    /\ UNCHANGED resVars
    /\ UNCHANGED fsVars

IdleNorm ==
    /\ raw_skill_name = <<>>
    /\ skill_name = <<>>
    /\ n_pc = "idle"

IdleRes ==
    /\ raw_resources = <<>>
    /\ resources = <<>>
    /\ invalid = {}
    /\ r_pc = "idle"

Procs == {"p1", "p2"}

NoArgs == [skill_name |-> <<>>, resources |-> <<>>, examples |-> FALSE]

NoLocal == [skill_name |-> <<>>, resources |-> <<>>, include_examples |-> FALSE, i |-> 1]

NoReport == [path |-> <<>>, outcome |-> [ret |-> "none"]]

IdleFs ==
    /\ fs = <<>>
    /\ args = [p \in Procs |-> NoArgs]
    /\ local = [p \in Procs |-> NoLocal]
    /\ pc = [p \in Procs |-> "idle"]
    /\ out = [p \in Procs |-> "none"]
    /\ wrote = [p \in Procs |-> {}]
    /\ HAS_YAML = TRUE
    /\ report = NoReport

InitNorm ==
    /\ raw_skill_name \in SeqsUpTo(NameChars, MaxRawLen)
    /\ skill_name = <<>>
    /\ n_pc = "start"
    /\ IdleRes
    /\ IdleFs

NextNorm == NormalizeMain

SpecNorm == InitNorm /\ [][NextNorm]_vars

----------------------------------------------------------------------------
(* Claims about the normalizer *)

\* the Skill Identifier character and hyphen rules of the data model
NoBadHyphens(s) ==
    /\ s[1] # "-"
    /\ s[Len(s)] # "-"
    /\ \A i \in 1..(Len(s) - 1) : ~(s[i] = "-" /\ s[i + 1] = "-")

OnlyIdChars(s) == \A i \in 1..Len(s) : IsAZ09(s[i]) \/ s[i] = "-"

\* C6: normalizing the result of normalize_skill_name again gives the same
\* string, for every input string.
C6_Idempotent ==
    n_pc # "start" => normalize_skill_name(skill_name) = skill_name

C6_Witness ==
    /\ n_pc = "accepted"
    /\ skill_name # raw_skill_name
    /\ \E i \in 1..Len(skill_name) : skill_name[i] = "-"

\* C7: the result of normalize_skill_name is empty, or has only characters
\* of [a-z0-9-], no leading hyphen, no trailing hyphen and no two
\* consecutive hyphens.
C7_Grammar ==
    n_pc # "start" =>
        \/ skill_name = <<>>
        \/ OnlyIdChars(skill_name) /\ NoBadHyphens(skill_name)

C7_Witness ==
    /\ n_pc = "accepted"
    /\ Len(raw_skill_name) >= 3
    /\ raw_skill_name[1] = "-"
    /\ \E i \in 1..Len(raw_skill_name) : raw_skill_name[i] \in {"O", "!", "Idot"}
    /\ \E i \in 1..Len(skill_name) : skill_name[i] = "-"

----------------------------------------------------------------------------
(* init_skill.py: resource selection parser *)

\* tokens of the --resources argument: the three resource words, a
\* misspelt word, the comma and the space
ResChars == {"scripts", "references", "assets", "scriptz", ",", " "}

ALLOWED_RESOURCES == {<<"scripts">>, <<"references">>, <<"assets">>}

\* str.split(","): the pieces between commas, empty pieces included
RECURSIVE SplitComma(_, _)
SplitComma(s, cur) ==
    IF s = <<>> THEN <<cur>>
    ELSE IF Head(s) = "," THEN <<cur>> \o SplitComma(Tail(s), <<>>)
    ELSE SplitComma(Tail(s), Append(cur, Head(s)))

\* line 164: [item.strip() for item in raw.split(",") if item.strip()]
RECURSIVE StripItems(_)
StripItems(pieces) ==
    IF pieces = <<>> THEN <<>>
    ELSE LET item == Strip(Head(pieces), Whitespace)
         IN  (IF item # <<>> THEN <<item>> ELSE <<>>) \o StripItems(Tail(pieces))

ResourceItems(raw) == StripItems(SplitComma(raw, <<>>))

\* line 165: the unknown items, as a set (printed sorted)
InvalidItems(items) ==
    {items[i] : i \in {j \in 1..Len(items) : items[j] \notin ALLOWED_RESOURCES}}

\* lines 171-177: keep the first occurrence of each item
RECURSIVE DedupeFrom(_, _, _)
DedupeFrom(items, deduped, seen) ==
    IF items = <<>> THEN deduped
    ELSE IF Head(items) \notin seen
         THEN DedupeFrom(Tail(items), Append(deduped, Head(items)), seen \cup {Head(items)})
         ELSE DedupeFrom(Tail(items), deduped, seen)

Dedupe(items) == DedupeFrom(items, <<>>, {})

\* no deduplication at all
parse_resources_no_dedupe(raw) ==
    IF raw = <<>> THEN [exit |-> FALSE, invalid |-> {}, resources |-> <<>>]
    ELSE LET items == ResourceItems(raw)
             bad == InvalidItems(items)
         IN  IF bad # {} THEN [exit |-> TRUE, invalid |-> bad, resources |-> <<>>]
             ELSE [exit |-> FALSE, invalid |-> {}, resources |-> items]

parse_resources(raw) ==
    IF raw = <<>> THEN [exit |-> FALSE, invalid |-> {}, resources |-> <<>>]
    ELSE LET items == ResourceItems(raw)
             bad == InvalidItems(items)
         IN  IF bad # {} THEN [exit |-> TRUE, invalid |-> bad, resources |-> <<>>]
             ELSE [exit |-> FALSE, invalid |-> {}, resources |-> Dedupe(items)]

ParseResources ==
    /\ r_pc = "start"
    /\ LET r == parse_resources(raw_resources)
       IN  /\ resources' = r.resources
           /\ invalid' = r.invalid
           /\ r_pc' = IF r.exit THEN "exit1" ELSE "returned"
    /\ UNCHANGED raw_resources
    /\ UNCHANGED normVars
    /\ UNCHANGED fsVars

InitRes ==
    /\ raw_resources \in SeqsUpTo(ResChars, MaxResLen)
    /\ resources = <<>>
    /\ invalid = {}
    /\ r_pc = "start"
    /\ IdleNorm
    /\ IdleFs

NextRes == ParseResources

SpecRes == InitRes /\ [][NextRes]_vars

----------------------------------------------------------------------------
(* The metadata document and the YAML subset it uses *)

\* A YAML value as written: style "plain" (unquoted scalar), "dq" (double
\* quoted scalar), "flow" ([a, b] sequence), "block" (- a sequence), "pair"
\* (a single "key: value" inside a flow sequence) or "absent" (no such key).
Plain(t) == [style |-> "plain", text |-> t]

Dq(t) == [style |-> "dq", text |-> t]

Flow(items) == [style |-> "flow", text |-> items]

Block(items) == [style |-> "block", text |-> items]

Pair(t) == [style |-> "pair", text |-> t]

ABSENT == [style |-> "absent", text |-> <<>>]

\* A Python object after yaml.safe_load
PyStr(t) == [t |-> "str", v |-> t]

PyInt(t) == [t |-> "int", v |-> t]

PyBool(b) == [t |-> "bool", v |-> b]

PyNone == [t |-> "NoneType", v |-> <<>>]

PyList(items) == [t |-> "list", v |-> items]

PyDict(t) == [t |-> "dict", v |-> t]

PyDate(t) == [t |-> "datetime", v |-> t]

Digits == {"1"}

\* strftime("%Y-%m-%dT%H:%M:%SZ"): year, month, rest, zone
MonthToks == <<"01", "02", "03", "04", "05", "06", "07", "08", "09", "10", "11", "12">>

Months == {MonthToks[i] : i \in 1..12}

TimestampText(m, z) == <<"2024-", m, "-01T00:00:00", z>>

LooksLikeTimestamp(t) ==
    /\ Len(t) \in {3, 4}
    /\ t[1] = "2024-"
    /\ t[2] \in Months
    /\ t[3] = "-01T00:00:00"
    /\ Len(t) = 4 => t[4] \in {"Z", "+00:00"}

\* PyYAML's implicit resolver for a plain scalar: null, bool, int,
\* timestamp, else str
ResolvePlain(t) ==
    IF t = <<>> THEN PyNone
    ELSE IF t \in {<<"o", "n">>, <<"O", "n">>, <<"O", "N">>} THEN PyBool(TRUE)
    ELSE IF t \in {<<"n", "o">>, <<"N", "o">>, <<"N", "O">>} THEN PyBool(FALSE)
    ELSE IF \A i \in 1..Len(t) : t[i] \in Digits THEN PyInt(t)
    ELSE IF Len(t) > 1 /\ t[1] = "-" /\ \A i \in 2..Len(t) : t[i] \in Digits THEN PyInt(t)
    ELSE IF LooksLikeTimestamp(t) THEN PyDate(t)
    ELSE PyStr(t)

RECURSIVE YamlValue(_)
YamlValue(raw) ==
    IF raw.style \in {"flow", "block"}
    THEN PyList([i \in 1..Len(raw.text) |-> YamlValue(raw.text[i])])
    ELSE IF raw.style = "plain" THEN ResolvePlain(raw.text)
    ELSE IF raw.style = "pair" THEN PyDict(raw.text)
    ELSE PyStr(raw.text)

\* == between two Python objects
PyEq(a, b) == a.t = b.t /\ a.v = b.v

REQUIRED_FIELDS ==
    <<"id", "name", "description", "category", "tags", "tool_refs",
      "workflow_refs", "visibility", "version", "created_at", "updated_at">>

Fields == {REQUIRED_FIELDS[i] : i \in 1..Len(REQUIRED_FIELDS)}

\* yaml.safe_load of a frontmatter mapping: the keys written, resolved
YamlLoad(entries) ==
    [f \in {g \in Fields : entries[g] # ABSENT} |-> YamlValue(entries[f])]

\* "---".join(segments)
RECURSIVE JoinDelim(_)
JoinDelim(segs) ==
    IF segs = <<>> THEN <<>>
    ELSE IF Len(segs) = 1 THEN segs[1]
    ELSE segs[1] \o <<"-", "-", "-">> \o JoinDelim(Tail(segs))

\* str.count(marker): "TODO" also occurs inside "[TODO"
CountTok(s, toks) == Cardinality({i \in 1..Len(s) : s[i] \in toks})

----------------------------------------------------------------------------
(* validate_skill.py *)

VALID_VISIBILITY == {<<"public">>, <<"private">>}

SKILL_MD == <<"SKILL.md">>

ShortBody == 100

ShortDescription == 50

\* str.islower() / str.isdigit() of one character: Unicode-aware
CharIsLower(c) == c \in {"o", "n", "i", "w64", "eacute"}

CharIsDigit(c) == c \in {"1", "sup2"}

\* str.islower() of a whole string (an element of a list)
UpperChars == {"O", "N", "I", "W64", "Idot"}

StrIsLower(t) ==
    /\ \E i \in 1..Len(t) : CharIsLower(t[i])
    /\ \A i \in 1..Len(t) : t[i] \notin UpperChars

StrIsDigit(t) == t # <<>> /\ \A i \in 1..Len(t) : CharIsDigit(t[i])

\* the elements met when indexing or iterating a str or a list
ElemIsLower(x, i) ==
    IF x.t = "str" THEN CharIsLower(x.v[i]) ELSE StrIsLower(x.v[i].v)

ElemIsDigit(x, i) ==
    IF x.t = "str" THEN CharIsDigit(x.v[i]) ELSE StrIsDigit(x.v[i].v)

ElemIsHyphen(x, i) ==
    IF x.t = "str" THEN x.v[i] = "-" ELSE x.v[i].v = <<"-">>

\* truth value of a Python object
Truthy(x) ==
    CASE x.t = "str" -> x.v # <<>>
      [] x.t = "list" -> x.v # <<>>
      [] x.t = "bool" -> x.v
      [] x.t = "NoneType" -> FALSE
      [] OTHER -> TRUE

\* is_valid_skill_id raises TypeError on int/bool/datetime (not
\* subscriptable) and AttributeError on a list holding a non-string
IdCheckRaises(x) ==
    /\ Truthy(x)
    /\ \/ x.t \in {"int", "bool", "datetime"}
       \/ x.t = "list" /\ \E i \in 1..Len(x.v) : x.v[i].t # "str"

is_valid_skill_id(x) ==
    /\ Truthy(x)
    /\ ElemIsLower(x, 1)
    /\ \A i \in 1..Len(x.v) : ElemIsLower(x, i) \/ ElemIsDigit(x, i) \/ ElemIsHyphen(x, i)

\* str.replace("Z", "+00:00")
ReplaceZ(t) == [i \in 1..Len(t) |-> IF t[i] = "Z" THEN "+00:00" ELSE t[i]]

\* datetime.fromisoformat succeeds
FromIsoFormatOk(t) ==
    /\ Len(t) \in {3, 4}
    /\ t[1] = "2024-"
    /\ t[2] \in Months
    /\ t[3] = "-01T00:00:00"
    /\ Len(t) = 4 => t[4] = "+00:00"

validate_timestamp(x) == FromIsoFormatOk(ReplaceZ(x.v))

\* .replace is missing (AttributeError) or rejects the arguments (TypeError)
TimestampRaises(x) == x.t # "str"

\* `x not in VALID_VISIBILITY` hashes x
VisibilityRaises(x) == x.t \in {"list", "dict"}

\* `"TODO" in description` and len(description)
DescriptionRaises(x) == x.t \notin {"str", "list"}

DescriptionHasTodo(x) ==
    IF x.t = "str" THEN \E i \in 1..Len(x.v) : x.v[i] \in {"TODO", "[TODO"}
    ELSE \E i \in 1..Len(x.v) :
            PyEq(x.v[i], PyStr(<<"TODO">>)) \/ PyEq(x.v[i], PyStr(<<"[TODO">>))

DescriptionLen(x) == IF x.t = "str" THEN StrLen(x.v) ELSE Len(x.v)

\* keep the members of a sequence of <<condition, finding>> pairs whose
\* condition holds, in order
RECURSIVE Collect(_)
Collect(pairs) ==
    IF pairs = <<>> THEN <<>>
    ELSE (IF Head(pairs)[1] THEN <<Head(pairs)[2]>> ELSE <<>>) \o Collect(Tail(pairs))

Outcome(ret, stage, errors, warnings) ==
    [ret |-> ret, stage |-> stage, errors |-> errors, warnings |-> warnings]

\* lines 98-105 and 153-162: the body findings
BodyWarnings(body) ==
    Collect(<<
        <<body # <<>> /\ StrLen(body) < ShortBody, <<"body_short", "">> >>,
        <<CountTok(body, {"TODO", "[TODO"}) + CountTok(body, {"[TODO"}) > 0,
          <<"body_todo", "">> >> >>)

\* lines 120-123
MissingErrors(fm) ==
    Collect([i \in 1..Len(REQUIRED_FIELDS) |->
        <<REQUIRED_FIELDS[i] \notin DOMAIN fm, <<"missing", REQUIRED_FIELDS[i]>> >>])

\* lines 131-169 can raise: the exception leaves validate_skill
ChecksRaise(fm) ==
    \/ IdCheckRaises(fm["id"])
    \/ VisibilityRaises(fm["visibility"])
    \/ TimestampRaises(fm["created_at"])
    \/ TimestampRaises(fm["updated_at"])
    \/ DescriptionRaises(fm["description"])

\* lines 131-151: each check and the error it appends
FieldChecks(fm, dirname) ==
    <<
        <<~PyEq(fm["id"], PyStr(dirname)), <<"id_mismatch", "id">> >>,
        <<~is_valid_skill_id(fm["id"]), <<"id_format", "id">> >>,
        <<~(fm["visibility"].t = "str" /\ fm["visibility"].v \in VALID_VISIBILITY),
          <<"visibility", "visibility">> >>,
        <<~validate_timestamp(fm["created_at"]), <<"timestamp", "created_at">> >>,
        <<~validate_timestamp(fm["updated_at"]), <<"timestamp", "updated_at">> >>,
        <<fm["tags"].t # "list", <<"not_array", "tags">> >>,
        <<fm["tool_refs"].t # "list", <<"not_array", "tool_refs">> >>,
        <<fm["workflow_refs"].t # "list", <<"not_array", "workflow_refs">> >>
    >>

\* stops at the first failed check
FieldErrorsFirstOnly(fm, dirname) ==
    LET all == Collect(FieldChecks(fm, dirname))
    IN  IF all = <<>> THEN <<>> ELSE <<all[1]>>

FieldErrors(fm, dirname) == Collect(FieldChecks(fm, dirname))

\* a short body is an error too
BodyErrorsShortFatal(body) ==
    IF body = <<>> THEN << <<"body_empty", "">> >>
    ELSE IF StrLen(body) < ShortBody THEN << <<"body_short", "">> >>
    ELSE <<>>

\* lines 153-155
BodyErrors(body) == IF body = <<>> THEN << <<"body_empty", "">> >> ELSE <<>>

SchemaErrors(fm, dirname, body) == FieldErrors(fm, dirname) \o BodyErrors(body)

\* lines 156-169
QualityWarnings(fm, body) ==
    BodyWarnings(body) \o
    Collect(<<
        <<DescriptionHasTodo(fm["description"]), <<"description_todo", "description">> >>,
        <<DescriptionLen(fm["description"]) < ShortDescription,
          <<"description_short", "description">> >> >>)

\* lines 109-194: with PyYAML
FullValidation(front, dirname, body) ==
    IF front.kind = "invalid" THEN Outcome("False", "yaml_error", <<>>, <<>>)
    ELSE IF front.kind # "map" THEN Outcome("False", "not_mapping", <<>>, <<>>)
    ELSE LET fm == YamlLoad(front.entries)
         IN  IF MissingErrors(fm) # <<>>
             THEN Outcome("False", "missing", MissingErrors(fm), <<>>)
             ELSE IF ChecksRaise(fm) THEN Outcome("raise", "checks", <<>>, <<>>)
             ELSE IF SchemaErrors(fm, dirname, body) # <<>>
             THEN Outcome("False", "report", SchemaErrors(fm, dirname, body), <<>>)
             ELSE Outcome("True", "report", <<>>, QualityWarnings(fm, body))

\* degraded mode rejecting an empty body
BasicValidationStrict(body) ==
    Outcome(IF body = <<>> THEN "False" ELSE "True", "basic", <<>>, BodyWarnings(body))

\* lines 92-107: without PyYAML
BasicValidation(body) ==
    Outcome("True", "basic", <<>>,
            (IF body = <<>> THEN << <<"body_empty", "">> >> ELSE <<>>) \o BodyWarnings(body))

\* validate_skill(skill_dir) on the filesystem f
validate_skill(f, path, has_yaml) ==
    IF path \notin DOMAIN f THEN Outcome("False", "no_directory", <<>>, <<>>)
    ELSE IF f[path].kind # "dir" THEN Outcome("False", "not_directory", <<>>, <<>>)
    ELSE IF path \o <<SKILL_MD>> \notin DOMAIN f
    THEN Outcome("False", "no_skill_md", <<>>, <<>>)
    ELSE IF f[path \o <<SKILL_MD>>].kind # "file"
    THEN Outcome("False", "unreadable", <<>>, <<>>)
    ELSE LET segs == f[path \o <<SKILL_MD>>].content
         IN  IF ~(Len(segs) >= 2 /\ segs[1] = <<>>)
             THEN Outcome("False", "no_frontmatter", <<>>, <<>>)
             ELSE IF Len(segs) < 3
             THEN Outcome("False", "bad_frontmatter", <<>>, <<>>)
             ELSE LET body == Strip(JoinDelim(SubSeq(segs, 3, Len(segs))), Whitespace)
                  IN  IF ~has_yaml THEN BasicValidation(body)
                      ELSE FullValidation(segs[2], path[Len(path)], body)

----------------------------------------------------------------------------
(* init_skill.py: package generator *)

\* str.capitalize() of a word of a normalized name
CapChar(c) ==
    CASE c = "o" -> "O"
      [] c = "n" -> "N"
      [] c = "i" -> "I"
      [] c = "w64" -> "W64"
      [] OTHER -> c

Capitalize(w) == IF w = <<>> THEN <<>> ELSE <<CapChar(Head(w))>> \o Tail(w)

\* skill_name.split("-")
RECURSIVE SplitHyphen(_, _)
SplitHyphen(s, cur) ==
    IF s = <<>> THEN <<cur>>
    ELSE IF Head(s) = "-" THEN <<cur>> \o SplitHyphen(Tail(s), <<>>)
    ELSE SplitHyphen(Tail(s), Append(cur, Head(s)))

RECURSIVE JoinSpace(_)
JoinSpace(ws) ==
    IF ws = <<>> THEN <<>>
    ELSE IF Len(ws) = 1 THEN Capitalize(ws[1])
    ELSE Capitalize(ws[1]) \o <<" ">> \o JoinSpace(Tail(ws))

title_case_skill_name(name) == JoinSpace(SplitHyphen(name, <<>>))

\* readings of datetime.now(timezone.utc): the month
ClockReadings == {"01", "12"}

\* strftime("%Y-%m-%dT%H:%M:%SZ")
FormatTimestamp(m) == TimestampText(m, "Z")

\* lines 24-36 of SKILL_TEMPLATE, as YAML
TemplateEntries(name, title, ts) ==
    [f \in Fields |->
        CASE f = "id" -> Plain(name)
          [] f = "name" -> Plain(title)
          [] f = "description" ->
               Flow(<<Pair(<<"TODO", "P", "P">>), Plain(<<"x">>), Plain(<<"P">>)>>)
          [] f = "category" ->
               Flow(<<Pair(<<"TODO", "x">>), Plain(<<"x">>), Plain(<<"x">>),
                      Plain(<<"x">>), Plain(<<"x">>)>>)
          [] f = "tags" ->
               Block(<<Flow(<<Pair(<<"TODO", "x">>)>>), Flow(<<Pair(<<"TODO", "x">>)>>)>>)
          [] f = "tool_refs" -> Flow(<<>>)
          [] f = "workflow_refs" -> Flow(<<>>)
          [] f = "visibility" -> Plain(<<"public">>)
          [] f = "version" -> Dq(<<"1.0.0">>)
          [] f = "created_at" -> Dq(ts)
          [] f = "updated_at" -> Dq(ts)]

\* SKILL_TEMPLATE.format(...): the text cut at its "---" lines.  Lines
\* 38-77 hold four "[TODO" markers, line 80 one "TODO".
RenderSkillMd(name, title, ts) ==
    << <<>>,
       [kind |-> "map", entries |-> TemplateEntries(name, title, ts)],
       <<" ", " ", "#", " ">> \o title \o
         <<" ", "[TODO", "P", "[TODO", "P", "[TODO", "P", "[TODO", "P", " ">>,
       <<" ", " ", "x", "TODO", "x", " ">> >>

Dir == [kind |-> "dir", content |-> <<>>, mode |-> "755"]

File(content, mode) == [kind |-> "file", content |-> content, mode |-> mode]

\* a check that never sees the path
PathExistsNever(f, path) == FALSE

\* Path.exists()
PathExists(f, path) == path \in DOMAIN f

Put(f, path, node) == [q \in DOMAIN f \cup {path} |-> IF q = path THEN node ELSE f[q]]

SkillDir(p) == <<local[p].skill_name>>

ExampleName(resource) ==
    CASE resource = <<"scripts">> -> <<"example.py">>
      [] resource = <<"references">> -> <<"guide.md">>
      [] OTHER -> <<"example.txt">>

ExampleText(resource, name, title) ==
    CASE resource = <<"scripts">> -> << <<"EXAMPLE_SCRIPT">> \o name >>
      [] resource = <<"references">> -> << <<"EXAMPLE_REFERENCE">> \o title >>
      [] OTHER -> << <<"EXAMPLE_ASSET">> >>

Terminal == {"idle", "exit0", "exit1"}

\* main(), lines 275-292: the input errors, before any filesystem access
Main(p) ==
    /\ pc[p] = "main"
    /\ LET name == normalize_skill_name(args[p].skill_name)
           r == parse_resources(args[p].resources)
       IN  IF \/ name = <<>>
              \/ StrLen(name) > MAX_SKILL_NAME_LENGTH
              \/ r.exit
              \/ args[p].examples /\ r.resources = <<>>
           THEN /\ pc' = [pc EXCEPT ![p] = "exit1"]
                /\ out' = [out EXCEPT ![p] = "input_error"]
                /\ UNCHANGED local
           ELSE /\ pc' = [pc EXCEPT ![p] = "exists"]
                /\ local' = [local EXCEPT ![p] =
                      [skill_name |-> name, resources |-> r.resources,
                       include_examples |-> args[p].examples, i |-> 1]]
                /\ UNCHANGED out
    /\ UNCHANGED <<fs, args, wrote, HAS_YAML, report>>
    /\ UNCHANGED <<normVars, resVars>>

\* init_skill, lines 212-214
CheckExists(p) ==
    /\ pc[p] = "exists"
    /\ IF PathExists(fs, SkillDir(p))
       THEN /\ pc' = [pc EXCEPT ![p] = "exit1"]
            /\ out' = [out EXCEPT ![p] = "already_exists"]
       ELSE /\ pc' = [pc EXCEPT ![p] = "mkdir"]
            /\ UNCHANGED out
    /\ UNCHANGED <<fs, args, local, wrote, HAS_YAML, report>>
    /\ UNCHANGED <<normVars, resVars>>

\* mkdir with exist_ok=True where the code passes exist_ok=False
MkdirNewExistOk(f, path, os_ok) ==
    IF PathExists(f, path) /\ f[path].kind # "dir"
    THEN [ok |-> FALSE, fs |-> f, e |-> "FileExistsError"]
    ELSE IF ~os_ok THEN [ok |-> FALSE, fs |-> f, e |-> "OSError"]
    ELSE IF PathExists(f, path) THEN [ok |-> TRUE, fs |-> f, e |-> "none"]
    ELSE [ok |-> TRUE, fs |-> Put(f, path, Dir), e |-> "none"]

\* mkdir(exist_ok=False): creates the directory or raises
MkdirNew(f, path, os_ok) ==
    IF PathExists(f, path) THEN [ok |-> FALSE, fs |-> f, e |-> "FileExistsError"]
    ELSE IF ~os_ok THEN [ok |-> FALSE, fs |-> f, e |-> "OSError"]
    ELSE [ok |-> TRUE, fs |-> Put(f, path, Dir), e |-> "none"]

\* mkdir(exist_ok=True): an existing directory is not an error
MkdirExistOk(f, path, os_ok) ==
    IF PathExists(f, path) /\ f[path].kind # "dir"
    THEN [ok |-> FALSE, fs |-> f, e |-> "FileExistsError"]
    ELSE IF ~os_ok THEN [ok |-> FALSE, fs |-> f, e |-> "OSError"]
    ELSE IF PathExists(f, path) THEN [ok |-> TRUE, fs |-> f, e |-> "none"]
    ELSE [ok |-> TRUE, fs |-> Put(f, path, Dir), e |-> "none"]

\* init_skill, lines 216-221
MakeSkillDir(p) ==
    /\ pc[p] = "mkdir"
    /\ \E os_ok \in BOOLEAN :
         LET r == MkdirNew(fs, SkillDir(p), os_ok)
         IN  /\ fs' = r.fs
             /\ pc' = [pc EXCEPT ![p] = IF r.ok THEN "write_md" ELSE "exit1"]
             /\ out' = [out EXCEPT ![p] = IF r.ok THEN "none" ELSE "mkdir_" \o r.e]
             /\ wrote' = [wrote EXCEPT ![p] =
                   IF r.ok THEN wrote[p] \cup {SkillDir(p)} ELSE wrote[p]]
    /\ UNCHANGED <<args, local, HAS_YAML, report>>
    /\ UNCHANGED <<normVars, resVars>>

\* init_skill, lines 223-237
WriteSkillMd(p) ==
    /\ pc[p] = "write_md"
    /\ \E os_ok \in BOOLEAN, m \in ClockReadings :
         LET name == local[p].skill_name
             text == RenderSkillMd(name, title_case_skill_name(name), FormatTimestamp(m))
         IN  IF os_ok
             THEN /\ fs' = Put(fs, SkillDir(p) \o <<SKILL_MD>>, File(text, "644"))
                  /\ pc' = [pc EXCEPT ![p] =
                        IF local[p].resources = <<>> THEN "exit0" ELSE "res_mkdir"]
                  /\ wrote' = [wrote EXCEPT ![p] = @ \cup {SkillDir(p) \o <<SKILL_MD>>}]
                  /\ UNCHANGED out
             ELSE /\ fs' = fs
                  /\ pc' = [pc EXCEPT ![p] = "exit1"]
                  /\ out' = [out EXCEPT ![p] = "write_error"]
                  /\ UNCHANGED wrote
    /\ UNCHANGED <<args, local, HAS_YAML, report>>
    /\ UNCHANGED <<normVars, resVars>>

Resource(p) == local[p].resources[local[p].i]

NextResource(p) ==
    /\ local' = [local EXCEPT ![p].i = local[p].i + 1]
    /\ pc' = [pc EXCEPT ![p] =
          IF local[p].i = Len(local[p].resources) THEN "exit0" ELSE "res_mkdir"]

\* create_resource_dirs, line 183
MakeResourceDir(p) ==
    /\ pc[p] = "res_mkdir"
    /\ \E os_ok \in BOOLEAN :
         LET r == MkdirExistOk(fs, SkillDir(p) \o <<Resource(p)>>, os_ok)
         IN  /\ fs' = r.fs
             /\ wrote' = [wrote EXCEPT ![p] =
                   IF r.fs # fs THEN @ \cup {SkillDir(p) \o <<Resource(p)>>} ELSE @]
             /\ out' = [out EXCEPT ![p] = IF r.ok THEN "none" ELSE "resource_error"]
             /\ IF ~r.ok
                THEN pc' = [pc EXCEPT ![p] = "exit1"] /\ UNCHANGED local
                ELSE IF local[p].include_examples
                THEN pc' = [pc EXCEPT ![p] = "res_write"] /\ UNCHANGED local
                ELSE NextResource(p)
    /\ UNCHANGED <<args, HAS_YAML, report>>
    /\ UNCHANGED <<normVars, resVars>>

\* create_resource_dirs, lines 186-187, 194-195, 201-202
WriteExample(p) ==
    /\ pc[p] = "res_write"
    /\ \E os_ok \in BOOLEAN :
         LET name == local[p].skill_name
             path == SkillDir(p) \o <<Resource(p), ExampleName(Resource(p))>>
             text == ExampleText(Resource(p), name, title_case_skill_name(name))
         IN  IF ~os_ok
             THEN /\ fs' = fs
                  /\ pc' = [pc EXCEPT ![p] = "exit1"]
                  /\ out' = [out EXCEPT ![p] = "resource_error"]
                  /\ UNCHANGED <<local, wrote>>
             ELSE /\ fs' = Put(fs, path, File(text, "644"))
                  /\ wrote' = [wrote EXCEPT ![p] = @ \cup {path}]
                  /\ UNCHANGED out
                  /\ IF Resource(p) = <<"scripts">>
                     THEN pc' = [pc EXCEPT ![p] = "res_chmod"] /\ UNCHANGED local
                     ELSE NextResource(p)
    /\ UNCHANGED <<args, HAS_YAML, report>>
    /\ UNCHANGED <<normVars, resVars>>

\* create_resource_dirs, line 188
ChmodExample(p) ==
    /\ pc[p] = "res_chmod"
    /\ LET path == SkillDir(p) \o <<Resource(p), ExampleName(Resource(p))>>
       IN  fs' = [fs EXCEPT ![path].mode = "755"]
    /\ NextResource(p)
    /\ UNCHANGED <<args, out, wrote, HAS_YAML, report>>
    /\ UNCHANGED <<normVars, resVars>>

\* validate_skill.py main(), once the generator runs have ended
Validate(path) ==
    /\ \A p \in Procs : pc[p] \in Terminal
    /\ report' = [path |-> path, outcome |-> validate_skill(fs, path, HAS_YAML)]
    /\ report' # report
    /\ UNCHANGED <<fs, args, local, pc, out, wrote, HAS_YAML>>
    /\ UNCHANGED <<normVars, resVars>>

\* the paths a validator run is pointed at: the entries of the parent
\* directory, and a path that does not exist
Targets == {q \in DOMAIN fs : Len(q) = 1} \cup {<< <<"missing">> >>}

NextGen ==
    \/ \E p \in Procs :
         \/ Main(p)
         \/ CheckExists(p)
         \/ MakeSkillDir(p)
         \/ WriteSkillMd(p)
         \/ MakeResourceDir(p)
         \/ WriteExample(p)
         \/ ChmodExample(p)
    \/ \E path \in Targets : Validate(path)

\* command lines of the racing runs: "o" and "O" name the same package
GenNames == {<<"o">>, <<"O">>, <<"n">>}

GenResources == {<<>>, <<"scripts">>, <<"assets", ",", "scripts">>}

InitGen ==
    /\ fs = <<>>
    /\ args \in [Procs -> [skill_name : GenNames, resources : GenResources,
                           examples : BOOLEAN]]
    /\ local = [p \in Procs |-> NoLocal]
    /\ pc = [p \in Procs |-> "main"]
    /\ out = [p \in Procs |-> "none"]
    /\ wrote = [p \in Procs |-> {}]
    /\ HAS_YAML = TRUE
    /\ report = NoReport
    /\ IdleNorm
    /\ IdleRes

SpecGen == InitGen /\ [][NextGen]_vars

\* one run of init_skill.py, then the validator on what it made
RoundChars == {"o", "n", "1", "-", "O"}

RoundResources == {<<>>, <<"scripts">>}

InitRound ==
    /\ fs = <<>>
    /\ \E a \in [skill_name : SeqsUpTo(RoundChars, MaxNameLen),
                 resources : RoundResources, examples : BOOLEAN] :
         args = [p \in Procs |-> IF p = "p1" THEN a ELSE NoArgs]
    /\ local = [p \in Procs |-> NoLocal]
    /\ pc = [p \in Procs |-> IF p = "p1" THEN "main" ELSE "idle"]
    /\ out = [p \in Procs |-> "none"]
    /\ wrote = [p \in Procs |-> {}]
    /\ HAS_YAML = TRUE
    /\ report = NoReport
    /\ IdleNorm
    /\ IdleRes

SpecRound == InitRound /\ [][NextGen]_vars

----------------------------------------------------------------------------
(* Packages written by hand, for the validator *)

GoodTimestamp == Dq(TimestampText("01", "Z"))

\* a complete, valid frontmatter for the directory `dirname`
BaseEntries(dirname) ==
    [f \in Fields |->
        CASE f = "id" -> Plain(dirname)
          [] f = "description" -> Dq(<<"P">>)
          [] f = "tags" -> Block(<<Dq(<<"x">>)>>)
          [] f = "tool_refs" -> Flow(<<>>)
          [] f = "workflow_refs" -> Flow(<<>>)
          [] f = "visibility" -> Plain(<<"public">>)
          [] f = "version" -> Dq(<<"1.0.0">>)
          [] f = "created_at" -> GoodTimestamp
          [] f = "updated_at" -> GoodTimestamp
          [] OTHER -> Dq(<<"x">>)]

\* other ways to write a field
Alternatives(f) ==
    CASE f = "id" -> {ABSENT, Plain(<<"n">>), Plain(<<"1">>), Plain(<<"O">>)}
      [] f = "name" -> {ABSENT}
      [] f = "description" ->
           {ABSENT, Dq(<<"x">>), Dq(<<"TODO">>), Dq(<<"TODO", "P">>), Plain(<<"1">>)}
      [] f = "tags" -> {ABSENT, Dq(<<"x">>)}
      [] f = "tool_refs" -> {Dq(<<"x">>)}
      [] f = "workflow_refs" -> {ABSENT}
      [] f = "visibility" -> {ABSENT, Plain(<<"secret">>), Flow(<<>>)}
      [] f = "created_at" ->
           {ABSENT, Dq(TimestampText("13", "Z")), Plain(TimestampText("01", "Z"))}
      [] f = "updated_at" -> {Dq(TimestampText("13", "Z"))}
      [] OTHER -> {}

BodyChars == {"P", "TODO", " "}

Bodies == SeqsUpTo(BodyChars, MaxBodyLen)

\* the text after the frontmatter, cut at its "---" occurrences
BodySegments == {<<b>> : b \in Bodies} \cup {<<b, <<"P">> >> : b \in {<<>>, <<"P">>}}

ValDir == <<"o">>

\* a complete, valid document for the directory ValDir
BaseDoc == [entries |-> BaseEntries(ValDir), body |-> << <<"P", "P">> >>]

\* one change to a document: another way to write a field, or another body
Edits ==
    {<<f, v>> : <<f, v>> \in
        {y \in Fields \X UNION {Alternatives(f) : f \in Fields} : y[2] \in Alternatives(y[1])}}
    \cup {<<"body", b>> : b \in BodySegments}

ApplyEdit(doc, x) ==
    IF x[1] = "body" THEN [doc EXCEPT !.body = x[2]]
    ELSE [doc EXCEPT !.entries[x[1]] = x[2]]

\* the documents that differ from `base` in at most k places
RECURSIVE EditedDocs(_, _)
EditedDocs(base, k) ==
    IF k = 0 THEN {base}
    ELSE LET prev == EditedDocs(base, k - 1)
         IN  prev \cup {ApplyEdit(d, x) : x \in Edits, d \in prev}

MapDoc(entries, body) == << <<>>, [kind |-> "map", entries |-> entries] >> \o body

Package(dirname, segs) ==
    Put(Put(<<>>, <<dirname>>, Dir), <<dirname, SKILL_MD>>, File(segs, "644"))

\* packages whose frontmatter and body vary
EditedPackages ==
    {Package(ValDir, MapDoc(d.entries, d.body)) : d \in EditedDocs(BaseDoc, MaxEdits)}

\* what stages 1-5 reject
BrokenPackages ==
    LET good == MapDoc(BaseEntries(ValDir), << <<"P", "P">> >>)
    IN  { <<>>,
          Put(<<>>, <<ValDir>>, File(good, "644")),
          Put(<<>>, <<ValDir>>, Dir),
          Put(Put(<<>>, <<ValDir>>, Dir), <<ValDir, SKILL_MD>>, Dir),
          Package(ValDir, << <<"x">>, good[2], good[3] >>),
          Package(ValDir, << <<"x">> >>),
          Package(ValDir, << <<>>, good[2] >>),
          Package(ValDir, << <<>>, [kind |-> "invalid", entries |-> good[2].entries], good[3] >>),
          Package(ValDir, << <<>>, [kind |-> "scalar", entries |-> good[2].entries], good[3] >>) }

\* characters of hand-written ids: also an uppercase letter, a non-ASCII
\* lowercase letter and a run of 64 letters
IdChars == {"o", "1", "-", "O", "eacute", "w64"}

\* ids that YAML reads as one plain scalar inside the frontmatter block
IdTexts ==
    {t \in SeqsUpTo(IdChars, MaxIdLen) :
        /\ t # <<>>
        /\ t # <<"-">>
        /\ \A i \in 1..(Len(t) - 2) : ~(t[i] = "-" /\ t[i + 1] = "-" /\ t[i + 2] = "-")}

\* packages that are valid but for their id
IdPackages ==
    {Package(d, MapDoc([BaseEntries(d) EXCEPT !["id"] = Plain(t)], << <<"P", "P">> >>)) :
        <<d, t>> \in {x \in IdTexts \X IdTexts : x[1] = x[2] \/ x[1] = ValDir}}

InitVal ==
    /\ fs \in EditedPackages \cup BrokenPackages \cup IdPackages
    /\ HAS_YAML \in BOOLEAN
    /\ args = [p \in Procs |-> NoArgs]
    /\ local = [p \in Procs |-> NoLocal]
    /\ pc = [p \in Procs |-> "idle"]
    /\ out = [p \in Procs |-> "none"]
    /\ wrote = [p \in Procs |-> {}]
    /\ report = NoReport
    /\ IdleNorm
    /\ IdleRes

NextVal == \E path \in Targets : Validate(path)

SpecVal == InitVal /\ [][NextVal]_vars

----------------------------------------------------------------------------
(* Claims about the resource parser *)

\* the trimmed non-empty tokens of a comma-separated text, by position:
\* the text between two neighbouring commas (or an end of the text)
Cuts(raw) == {0, Len(raw) + 1} \cup {i \in 1..Len(raw) : raw[i] = ","}

TokenAt(raw, a, b) == Strip(SubSeq(raw, a + 1, b - 1), Whitespace)

\* <<a, token>> for every non-empty trimmed token, a its left cut
TokensOf(raw) ==
    {<<a, TokenAt(raw, a, b)>> : <<a, b>> \in
        {c \in Cuts(raw) \X Cuts(raw) :
            /\ c[1] < c[2]
            /\ \A k \in Cuts(raw) : ~(c[1] < k /\ k < c[2])
            /\ TokenAt(raw, c[1], c[2]) # <<>>}}

FirstSeen(raw, t) ==
    CHOOSE a \in {x[1] : x \in {y \in TokensOf(raw) : y[2] = t}} :
        \A b \in {x[1] : x \in {y \in TokensOf(raw) : y[2] = t}} : a <= b

\* C8: parse_resources either aborts, exactly when some trimmed non-empty
\* token is not an allowed resource, listing every such token, or returns
\* the distinct tokens in first-seen order without duplicates; the empty
\* input returns the empty list.
C8_ParseResources ==
    r_pc \notin {"start", "idle"} =>
        LET toks == {x[2] : x \in TokensOf(raw_resources)}
            unknown == toks \ ALLOWED_RESOURCES
        IN  /\ (r_pc = "exit1") = (unknown # {})
            /\ r_pc = "exit1" => invalid = unknown
            /\ r_pc = "returned" =>
                  /\ {resources[i] : i \in 1..Len(resources)} = toks
                  /\ \A i, j \in 1..Len(resources) :
                        i < j => /\ resources[i] # resources[j]
                                 /\ FirstSeen(raw_resources, resources[i])
                                      < FirstSeen(raw_resources, resources[j])
            /\ raw_resources = <<>> => r_pc = "returned" /\ resources = <<>>

\* "assets, scripts, assets" style input: a repeated token and two kinds
C8_Witness ==
    /\ r_pc = "returned"
    /\ Len(resources) = 2
    /\ Cardinality(TokensOf(raw_resources)) = 3

\* an input with two different unknown tokens, both listed
C8_WitnessAbort ==
    /\ r_pc = "exit1"
    /\ Cardinality(invalid) = 2

----------------------------------------------------------------------------
(* Claims about the generator *)

Started(p) == pc[p] \notin {"idle", "main"} /\ out[p] # "input_error"

\* C5: an init_skill run that finds its target path present, at the
\* existence check or at the directory creation, ends in failure by that
\* step, changes nothing on the filesystem and has written nothing.
C5_NoWriteIntoExisting ==
    [][\A p \in Procs :
          (/\ pc[p] \in {"exists", "mkdir"}
           /\ <<local[p].skill_name>> \in DOMAIN fs
           /\ pc'[p] # pc[p])
          => (fs' = fs /\ pc'[p] = "exit1" /\ wrote'[p] = {})]_vars

\* the same identifier twice: success, then "already exists"
C5_Witness ==
    \E p, q \in Procs :
        /\ p # q
        /\ pc[p] = "exit0"
        /\ out[q] = "already_exists"
        /\ local[p].skill_name = local[q].skill_name
        /\ <<local[p].skill_name, SKILL_MD>> \in wrote[p]
        /\ wrote[q] = {}

\* C10: of two runs racing for the same target, at most one succeeds and
\* at most one ever creates or writes anything; once one has succeeded,
\* the other, when it ends, has failed at the existence check or at the
\* directory creation.
C10_RaceOneWinner ==
    \A p, q \in Procs :
        (p # q /\ Started(p) /\ Started(q) /\ local[p].skill_name = local[q].skill_name)
        => /\ ~(pc[p] = "exit0" /\ pc[q] = "exit0")
           /\ wrote[p] = {} \/ wrote[q] = {}
           /\ (pc[p] = "exit0" /\ pc[q] \in Terminal)
                => /\ pc[q] = "exit1"
                   /\ out[q] \in {"already_exists", "mkdir_FileExistsError", "mkdir_OSError"}

\* the loser passed the existence check and lost at mkdir
C10_Witness ==
    \E p, q \in Procs :
        /\ p # q
        /\ pc[p] = "exit0"
        /\ pc[q] = "exit1"
        /\ out[q] = "mkdir_FileExistsError"
        /\ local[p].skill_name = local[q].skill_name
        /\ wrote[p] # {}
        /\ wrote[q] = {}

----------------------------------------------------------------------------
(* Claims about the validator *)

Ran == report.outcome.ret # "none"

Structured(path) ==
    /\ path \in DOMAIN fs
    /\ fs[path].kind = "dir"
    /\ path \o <<SKILL_MD>> \in DOMAIN fs
    /\ fs[path \o <<SKILL_MD>>].kind = "file"
    /\ Len(fs[path \o <<SKILL_MD>>].content) >= 3
    /\ fs[path \o <<SKILL_MD>>].content[1] = <<>>

Segments(path) == fs[path \o <<SKILL_MD>>].content

ParsedMap(path) == Structured(path) /\ Segments(path)[2].kind = "map"

Loaded(path) == YamlLoad(Segments(path)[2].entries)

BodyOf(path) ==
    Strip(JoinDelim(SubSeq(Segments(path), 3, Len(Segments(path)))), Whitespace)

Errs == {report.outcome.errors[i] : i \in 1..Len(report.outcome.errors)}

Warns == {report.outcome.warnings[i] : i \in 1..Len(report.outcome.warnings)}

MissingFields(path) == Fields \ DOMAIN Loaded(path)

\* C1: the package a successful init_skill run created is accepted by
\* validate_skill with PyYAML present: it returns True with no errors.
C1_RoundTrip ==
    \A p \in Procs :
        (pc[p] = "exit0" /\ Ran /\ HAS_YAML /\ report.path = <<local[p].skill_name>>)
        => (report.outcome.ret = "True" /\ report.outcome.errors = <<>>)

C2_WitnessMissing ==
    /\ Ran /\ HAS_YAML /\ ParsedMap(report.path)
    /\ MissingFields(report.path) = {"name"}
    /\ ~PyEq(Loaded(report.path)["id"], PyStr(report.path[Len(report.path)]))
    /\ Errs = {<<"missing", "name">>}

\* C3 as claimed: without PyYAML, a document whose frontmatter lacks a
\* required field never gets a pass.
C3_DegradedNeverPasses ==
    (Ran /\ ~HAS_YAML /\ ParsedMap(report.path) /\ MissingFields(report.path) # {})
    => report.outcome.ret # "True"

\* C3 amended: without PyYAML, validate_skill never gives the full-schema
\* result; it returns the basic pass exactly for the documents that pass
\* the structural stages, whatever their frontmatter holds, and reports no
\* errors.
C3_DegradedBasicOnly ==
    (Ran /\ ~HAS_YAML)
    => /\ report.outcome.stage \notin {"report", "missing", "checks", "yaml_error", "not_mapping"}
       /\ (report.outcome.ret = "True") = (report.outcome.stage = "basic")
       /\ (report.outcome.stage = "basic") = Structured(report.path)
       /\ report.outcome.ret \in {"True", "False"}
       /\ report.outcome.errors = <<>>

C3_Witness ==
    /\ Ran /\ ~HAS_YAML
    /\ ParsedMap(report.path)
    /\ "visibility" \in MissingFields(report.path)
    /\ report.outcome.ret = "True"
    /\ report.outcome.stage = "basic"

SoftFindings ==
    {<<"body_short", "">>, <<"body_todo", "">>,
     <<"description_todo", "description">>, <<"description_short", "description">>}

\* C4 as claimed: a run whose only findings are an empty or short body,
\* TODO markers or a short description passes.
C4_QualityAdvisory ==
    (/\ Ran /\ HAS_YAML
     /\ report.outcome.stage = "report"
     /\ Errs \subseteq SoftFindings \cup {<<"body_empty", "">>})
    => report.outcome.ret = "True"

\* C4 amended: a short non-empty body, TODO markers in the body or the
\* description and a short description are warnings of a passing run and
\* never errors; a run with no errors passes whatever its warnings; an
\* empty body is an error and the run fails.
C4_QualityAdvisoryButEmptyBody ==
    (Ran /\ HAS_YAML /\ report.outcome.stage = "report")
    => LET fm == Loaded(report.path)
           body == BodyOf(report.path)
       IN  /\ Errs \cap SoftFindings = {}
           /\ (body = <<>>) = (<<"body_empty", "">> \in Errs)
           /\ body = <<>> => report.outcome.ret = "False"
           /\ Errs = {} =>
                /\ report.outcome.ret = "True"
                /\ StrLen(body) < ShortBody => <<"body_short", "">> \in Warns
                /\ (\E i \in 1..Len(body) : body[i] \in {"TODO", "[TODO"})
                     => <<"body_todo", "">> \in Warns
                /\ DescriptionHasTodo(fm["description"])
                     => <<"description_todo", "description">> \in Warns
                /\ DescriptionLen(fm["description"]) < ShortDescription
                     => <<"description_short", "description">> \in Warns

\* every soft finding at once, and a pass
C4_Witness ==
    /\ Ran /\ HAS_YAML
    /\ report.outcome.ret = "True"
    /\ Warns = SoftFindings

\* an empty body fails the run
C4_WitnessEmptyBody ==
    /\ Ran /\ HAS_YAML
    /\ report.outcome.stage = "report"
    /\ Errs = {<<"body_empty", "">>}

\* the grammar of the data model: also no trailing or doubled hyphen,
\* at most 64 characters, ASCII only
is_valid_skill_id_strict(x) ==
    /\ x.t = "str"
    /\ x.v # <<>>
    /\ \A i \in 1..Len(x.v) : x.v[i] \in {"o", "n", "i", "w64", "1", "-"}
    /\ x.v[1] # "-"
    /\ x.v[Len(x.v)] # "-"
    /\ \A i \in 1..(Len(x.v) - 1) : ~(x.v[i] = "-" /\ x.v[i + 1] = "-")
    /\ StrLen(x.v) <= 64

\* the id is the directory name and every other field and the body are
\* valid
ValidButForId(path) ==
    /\ ParsedMap(path)
    /\ Segments(path)[2].entries = BaseEntries(path[Len(path)])
    /\ BodyOf(path) # <<>>

\* C9: a string id that fails the Skill Identifier grammar (trailing
\* hyphen, doubled hyphen, more than 64 characters, a character outside
\* [a-z0-9-]) gets an id format error and a failing result, even when it
\* equals the directory name and every other field is valid.
C9_IdGrammarEnforced ==
    (/\ Ran /\ HAS_YAML
     /\ ValidButForId(report.path)
     /\ Loaded(report.path)["id"].t = "str"
     /\ ~is_valid_skill_id_strict(Loaded(report.path)["id"]))
    => /\ report.outcome.ret = "False"
       /\ <<"id_format", "id">> \in Errs

====
